---- MODULE Spec2Model ----
(***************************************************************************)
(* A model of lxoReader.py: the LXO (IFF-style, big-endian) chunk reader.  *)
(*                                                                         *)
(* The file is a sequence of bytes (data).  The reader owns a forward      *)
(* cursor (pos, the offset file.tell() reports) and a byte budget          *)
(* (modSize).  Strings are sequences of code points, 4-character tags are  *)
(* sequences of 4 character codes, a float is carried as the 4 bytes it    *)
(* was unpacked from, and Python's None is the empty option     *)
(* <<>> (Some(x) is <<x>>).                                                *)
(***************************************************************************)
EXTENDS Integers, Sequences, FiniteSets, TLC

VARIABLES
    data,          \* the bytes of the file being read
    tagsToRead,    \* LXOReader.tagsToRead: the selective filter
    DEBUG,         \* the module-level DEBUG flag
    pos,           \* the cursor of LXOReader.file
    modSize,       \* LXOReader.modSize: the remaining budget
    pc,            \* where the reader is
    err,           \* the exception that ended the decode ("" if none)
    lxoFile,       \* the LXOFile aggregate being built
    currentLayer,  \* __readChunks' currentLayer: 0 is None, else an index into layers
    sizeSnap,      \* __readChunks' sizeSnap of the chunk being walked
    chunkSize,     \* __readChunks' chunkSize of the chunk being walked
    currentActionItem, \* __readACTN's currentActionItem: 0 is None
    arg,           \* the argument of the primitive last called directly
    ret,           \* the value the primitive last called directly returned
    calls,         \* how often the consumer has called generateMaterials
    short          \* history: a chunk header declared more bytes than the file holds

vars == <<data, tagsToRead, DEBUG, pos, modSize, pc, err, lxoFile,
          currentLayer, sizeSnap, chunkSize, currentActionItem, arg, ret,
          calls, short>>

----------------------------------------------------------------------------
(* Bounds *)

MaxPrimLen == 4      \* longest byte string handed to a primitive on its own
MaxPtags == 3        \* longest MATR list handed to generateMaterials on its own
MaxCalls == 2        \* most calls of generateMaterials on one layer
MaxChunks == 2       \* most chunks of a file built from the core chunks
MaxCut == 1          \* most bytes missing from the end of a file

(* The byte values primitives are exercised on: NUL, two ASCII letters, a  *)
(* UTF-8 continuation byte, a two-byte and a three-byte UTF-8 leader, and  *)
(* the two bytes around the VX sentinel.                                   *)
PrimBytes == {0, 65, 66, 169, 195, 226, 254, 255}

(* The datatypes readValue is exercised on. *)
Datatypes == {0, 1, 2, 3, 4, 16, 17, 18, 19, 20, 32, 33, 34, 35,
              49, 50, 51, 65, 81, 97}

----------------------------------------------------------------------------
(* Values *)

None == <<>>
Some(x) == <<x>>

Min(a, b) == IF a < b THEN a ELSE b
Max(a, b) == IF a > b THEN a ELSE b

(* struct.unpack(">1H") / (">1L") of bytes.  The model's integers are     *)
(* 32-bit signed, so an unsigned 4-byte field is read only where its top   *)
(* byte is below 128; the files of the model keep to that.                 *)
BE2(b) == b[1] * 256 + b[2]
BE4(b) == ((b[1] * 256 + b[2]) * 256 + b[3]) * 256 + b[4]

(* struct.unpack(">1h") / (">1l") / (">1i"): two's complement, the sign    *)
(* taken from the top byte.                                                *)
SignedTop(b) == IF b >= 128 THEN b - 256 ELSE b
Signed2(b) == SignedTop(b[1]) * 256 + b[2]
Signed4(b) == ((SignedTop(b[1]) * 256 + b[2]) * 256 + b[3]) * 256 + b[4]

(* A strip that removes one trailing zero byte only: what rstrip is not. *)
rstripOne(s) ==
    IF Len(s) > 0 /\ s[Len(s)] = 0 THEN SubSeq(s, 1, Len(s) - 1) ELSE s

(* bytes.rstrip(b'\0') *)
RECURSIVE rstrip0(_)
rstrip0(s) ==
    IF Len(s) > 0 /\ s[Len(s)] = 0 THEN rstrip0(SubSeq(s, 1, Len(s) - 1))
    ELSE s

(* bytes.decode("utf-8", "ignore").  The length of the form a leader      *)
(* byte announces: 1 for ASCII, 2 for C2..DF, 3 for E0..EF, 4 for F0..F4,  *)
(* and 0 for a byte that starts no form (80..C1, F5..FF).                  *)
utf8Length(b) ==
    IF b < 128 THEN 1
    ELSE IF b >= 194 /\ b <= 223 THEN 2
    ELSE IF b >= 224 /\ b <= 239 THEN 3
    ELSE IF b >= 240 /\ b <= 244 THEN 4
    ELSE 0

(* The second byte a leader admits: 80..BF, but A0..BF after E0 and        *)
(* 90..BF after F0 (no overlong form), 80..9F after ED (no surrogate) and  *)
(* 80..8F after F4 (nothing above U+10FFFF).                               *)
utf8Second(b, c) ==
    /\ c >= (IF b = 224 THEN 160 ELSE IF b = 240 THEN 144 ELSE 128)
    /\ c <= (IF b = 237 THEN 159 ELSE IF b = 244 THEN 143 ELSE 191)

(* s starts with a well-formed form of n bytes. *)
utf8Valid(s, n) ==
    /\ n >= 1
    /\ Len(s) >= n
    /\ n >= 2 => utf8Second(s[1], s[2])
    /\ \A i \in 3..n : s[i] >= 128 /\ s[i] <= 191

(* The code point of the well-formed form of n bytes s starts with. *)
utf8CodePoint(s, n) ==
    IF n = 1 THEN s[1]
    ELSE IF n = 2 THEN (s[1] % 32) * 64 + (s[2] % 64)
    ELSE IF n = 3 THEN (s[1] % 16) * 4096 + (s[2] % 64) * 64 + (s[3] % 64)
    ELSE (s[1] % 8) * 262144 + (s[2] % 64) * 4096 + (s[3] % 64) * 64
         + (s[4] % 64)

(* A well-formed form becomes its code point; where none starts, the       *)
(* byte is dropped and decoding goes on behind it.                         *)
RECURSIVE decodeUtf8Ignore(_)
decodeUtf8Ignore(s) ==
    IF Len(s) = 0 THEN <<>>
    ELSE LET n == utf8Length(s[1]) IN
         IF utf8Valid(s, n)
         THEN <<utf8CodePoint(s, n)>>
              \o decodeUtf8Ignore(SubSeq(s, n + 1, Len(s)))
         ELSE decodeUtf8Ignore(Tail(s))

----------------------------------------------------------------------------
(* The primitive reader.  A reader state r is [pos, mod, err, v]: cursor,  *)
(* budget, the exception raised so far ("" if none) and the value the last *)
(* read returned.  A read on a failed reader is not executed.              *)

R(p, m) == [pos |-> p, mod |-> m, err |-> "", v |-> 0]

(* file.read(n) returns the bytes from the cursor, at most n of them. *)
Got(r, n) == Max(0, Min(n, Len(data) - r.pos))
Bytes(r, n) == SubSeq(data, r.pos + 1, r.pos + n)

(* A read of n bytes that decrements the budget first and unpacks after. *)
Fixed(r, n, conv(_)) ==
    IF r.err # "" THEN r
    ELSE IF Got(r, n) = n
         THEN [pos |-> r.pos + n, mod |-> r.mod - n, err |-> "",
               v |-> conv(Bytes(r, n))]
         ELSE [pos |-> r.pos + Got(r, n), mod |-> r.mod - n,
               err |-> "struct.error", v |-> 0]

IdBytes(b) == b

readID4(r) ==
    IF r.err # "" THEN r
    ELSE IF Got(r, 4) = 4
         THEN IF Bytes(r, 4)[1] >= 128
              THEN \* val is a signed long: chr() of a negative number
                   [pos |-> r.pos + 4, mod |-> r.mod - 4,
                    err |-> "ValueError", v |-> 0]
              ELSE [pos |-> r.pos + 4, mod |-> r.mod - 4, err |-> "",
                    v |-> Bytes(r, 4)]
         ELSE [pos |-> r.pos + Got(r, 4), mod |-> r.mod - 4,
               err |-> "struct.error", v |-> 0]

U1Of(b) == b[1]
readU1(r) == Fixed(r, 1, U1Of)

(* Four single-byte reads after one decrement of 4. *)
readU14(r) == Fixed(r, 4, IdBytes)

(* size = self.modSize; self.modSize = 0; unpack(">%ss" % size,           *)
(* file.read(size)): the whole budget is read as one byte string.  read    *)
(* refuses a size below -1 and reads to the end of the file on -1, which   *)
(* unpack then refuses as a format.                                        *)
readU1s(r) ==
    IF r.err # "" THEN r
    ELSE IF r.mod < -1
         THEN [pos |-> r.pos, mod |-> 0, err |-> "ValueError", v |-> 0]
    ELSE IF r.mod = -1
         THEN [pos |-> Max(r.pos, Len(data)), mod |-> 0,
               err |-> "struct.error", v |-> 0]
    ELSE IF Got(r, r.mod) = r.mod
         THEN [pos |-> r.pos + r.mod, mod |-> 0, err |-> "",
               v |-> Bytes(r, r.mod)]
         ELSE [pos |-> r.pos + Got(r, r.mod), mod |-> 0,
               err |-> "struct.error", v |-> 0]

readU2(r) == Fixed(r, 2, BE2)
readU4(r) == Fixed(r, 4, BE4)

readI2(r) == Fixed(r, 2, Signed2)
readI4(r) == Fixed(r, 4, Signed4)
readInt(r) == Fixed(r, 4, Signed4)

(* struct.unpack(">1f"): the float is carried as the 4 bytes of its        *)
(* IEEE-754 pattern.                                                       *)
Float(b) == [f4 |-> b]
readF4(r) == Fixed(r, 4, Float)
readFloat(r) == Fixed(r, 4, Float)

(* The 4-byte branch builds val = '\x00' + val[1:], a str joined to bytes, *)
(* which raises TypeError after both reads and before the decrement.       *)
readVX(r) ==
    IF r.err # "" THEN r
    ELSE IF Got(r, 2) < 2
         THEN [pos |-> r.pos + Got(r, 2), mod |-> r.mod,
               err |-> "struct.error", v |-> 0]
         ELSE LET out == BE2(Bytes(r, 2)) IN
              IF out < 65280
              THEN [pos |-> r.pos + 2, mod |-> r.mod - 2, err |-> "",
                    v |-> out]
              ELSE [pos |-> r.pos + Got(r, 4), mod |-> r.mod,
                    err |-> "TypeError", v |-> 0]

(* The number of bytes readS0's loop reads from offset start, n read so    *)
(* far: it stops when the count is even and the last byte is zero, or      *)
(* when the file has no byte left.                                         *)
RECURSIVE S0Scan(_, _)
S0Scan(start, n) ==
    IF start + n >= Len(data) THEN [ok |-> FALSE, n |-> n]
    ELSE IF (n + 1) % 2 = 0 /\ data[start + n + 1] = 0
         THEN [ok |-> TRUE, n |-> n + 1]
         ELSE S0Scan(start, n + 1)

readS0(r) ==
    IF r.err # "" THEN r
    ELSE LET s == S0Scan(r.pos, 0) IN
         IF s.ok
         THEN [pos |-> r.pos + s.n, mod |-> r.mod - s.n, err |-> "",
               v |-> decodeUtf8Ignore(rstrip0(Bytes(r, s.n)))]
         ELSE [pos |-> r.pos + s.n, mod |-> r.mod - s.n,
               err |-> "struct.error", v |-> 0]

(* range(size) is empty for a negative size: nothing is read and the       *)
(* budget grows by -size.                                                  *)
readblob(r, size) ==
    IF r.err # "" THEN r
    ELSE IF size <= 0
         THEN [pos |-> r.pos, mod |-> r.mod - size, err |-> "", v |-> <<>>]
         ELSE IF Got(r, size) = size
              THEN [pos |-> r.pos + size, mod |-> r.mod - size, err |-> "",
                    v |-> Bytes(r, size)]
              ELSE [pos |-> r.pos + Got(r, size), mod |-> r.mod - size,
                    err |-> "struct.error", v |-> 0]

readVEC12(r) ==
    LET a == readF4(r)
        b == readF4(a)
        c == readF4(b)
    IN  IF c.err # "" THEN c ELSE [c EXCEPT !.v = <<a.v, b.v, c.v>>]

(* A mask that keeps the low five bits only: what & ~0x20 is not. *)
maskLow5(datatype) == datatype % 32

(* int(datatype) & ~0x20: bit 5 is cleared, every other bit is kept. *)
maskDatatype(datatype) ==
    IF (datatype \div 32) % 2 = 1 THEN datatype - 32 ELSE datatype

readValue(r, datatype) ==
    IF r.err # "" THEN r
    ELSE LET dt == maskDatatype(datatype) IN
         IF dt = 1 \/ dt = 17 THEN readInt(r)
         ELSE IF dt = 2 \/ dt = 18 THEN readFloat(r)
         ELSE IF dt = 3 \/ dt = 19 THEN readS0(r)
         ELSE [r EXCEPT !.err = "unknown datatype"]

----------------------------------------------------------------------------
(* Tags *)

Letters == <<"A", "B", "C", "D", "E", "F", "G", "H", "I", "J", "K", "L", "M",
             "N", "O", "P", "Q", "R", "S", "T", "U", "V", "W", "X", "Y", "Z">>
Code(c) == 64 + CHOOSE i \in 1..26 : Letters[i] = c
ID4(a, b, c, d) == <<Code(a), Code(b), Code(c), Code(d)>>

(* sENCODINGS has 8 entries. *)
NumEncodings == 8

----------------------------------------------------------------------------
(* The data model *)

(* dict[k] = v *)
Put(d, k, v) == [x \in (DOMAIN d) \cup {k} |-> IF x = k THEN v ELSE d[x]]
EmptyDict == <<>>

(* LXOFile.__init__ *)
LXOFile ==
    [version |-> None, appversion |-> None, encoding |-> None, size |-> 0,
     type |-> None, channelNames |-> None, tagnames |-> None,
     layers |-> <<>>, items |-> <<>>, actionLayers |-> <<>>]

(* LXOLayer.__init__ *)
LXOLayer(name, subdLevel, psubLevel, id) ==
    [name |-> name, isSubD |-> FALSE, subdLevel |-> subdLevel,
     psubLevel |-> psubLevel, vertCount |-> 0, polyCount |-> 0,
     referenceID |-> id, points |-> <<>>, polygons |-> <<>>,
     ptags |-> EmptyDict, materials |-> EmptyDict, uvMaps |-> EmptyDict,
     uvMapsDisco |-> EmptyDict]

(* LXOItem.__init__ *)
LXOItem(name, id, typename) ==
    [id |-> id, name |-> name, vname |-> None, typename |-> typename,
     channel |-> EmptyDict, CHNL |-> <<>>, CHNV |-> EmptyDict,
     itemTags |-> <<>>, packages |-> <<>>, CHNC |-> <<>>,
     graphLinks |-> EmptyDict, LAYR |-> None]

(* ActionLayer.__init__ *)
ActionLayer(name, type, index) ==
    [name |-> name, type |-> type, index |-> index, items |-> <<>>]

(* ActionLayerItem.__init__ *)
ActionLayerItem(id) ==
    [id |-> id, CHAN |-> <<>>, GRAD |-> <<>>, stringChannels |-> <<>>]

(* LXOFile.addLayer / addItem / addActionLayer *)
addLayer(f, name, subdLevel, psubLevel, id) ==
    [f EXCEPT !.layers = Append(@, LXOLayer(name, subdLevel, psubLevel, id))]
addItem(f, name, id, typename) ==
    [f EXCEPT !.items = Append(@, LXOItem(name, id, typename))]
addActionLayer(f, name, type, index) ==
    [f EXCEPT !.actionLayers = Append(@, ActionLayer(name, type, index))]

(* LXOLayer.generateMaterials: the materials dict after one call, or the   *)
(* exception the lookup tagnames[tagIndex] raises.  m is the dict so far   *)
(* and pt the MATR pairs still to visit.                                   *)
RECURSIVE materialsLoop(_, _, _)
materialsLoop(m, pt, tagnames) ==
    IF Len(pt) = 0 THEN [err |-> "", m |-> m]
    ELSE LET polyIndex == pt[1][1]
             tagIndex == pt[1][2]
         IN  IF tagnames = None THEN [err |-> "TypeError", m |-> m]
             ELSE IF tagIndex >= Len(tagnames[1])
                  THEN [err |-> "IndexError", m |-> m]
                  ELSE LET materialName == tagnames[1][tagIndex + 1]
                           m1 == IF materialName \in DOMAIN m THEN m
                                 ELSE Put(m, materialName, <<>>)
                       IN  materialsLoop(
                             [m1 EXCEPT ![materialName] = Append(@, polyIndex)],
                             Tail(pt), tagnames)

generateMaterials(layer, tagnames) ==
    IF ID4("M", "A", "T", "R") \notin DOMAIN layer.ptags
    THEN [err |-> "", m |-> layer.materials]
    ELSE materialsLoop(layer.materials, layer.ptags[ID4("M", "A", "T", "R")],
                       tagnames)

----------------------------------------------------------------------------
(* The primitives called on their own: the reader is bound to a short      *)
(* byte string and one primitive is applied at offset 0.                   *)

SeqsUpTo(S, n) == UNION {[1..k -> S] : k \in 0..n}

Idle ==
    /\ tagsToRead = {}
    /\ DEBUG = FALSE
    /\ err = ""
    /\ currentLayer = 0
    /\ sizeSnap = 0
    /\ chunkSize = 0
    /\ currentActionItem = 0
    /\ arg = 0
    /\ ret = 0
    /\ calls = 0
    /\ short = FALSE

InitPrim ==
    /\ data \in SeqsUpTo(PrimBytes, MaxPrimLen)
    /\ pos = 0
    /\ modSize = Len(data)
    /\ pc = "call"
    /\ lxoFile = LXOFile
    /\ Idle

Returned(r, name, a) ==
    /\ pos' = r.pos
    /\ modSize' = r.mod
    /\ err' = r.err
    /\ ret' = r.v
    /\ arg' = a
    /\ pc' = name
    /\ UNCHANGED <<data, tagsToRead, DEBUG, lxoFile, currentLayer, sizeSnap,
                   chunkSize, currentActionItem, calls, short>>

CallReadVX ==
    /\ pc = "call"
    /\ Returned(readVX(R(pos, modSize)), "readVX", 0)

CallReadS0 ==
    /\ pc = "call"
    /\ Returned(readS0(R(pos, modSize)), "readS0", 0)

CallReadValue ==
    /\ pc = "call"
    /\ \E datatype \in Datatypes :
          Returned(readValue(R(pos, modSize), datatype), "readValue", datatype)

CallReadU1s ==
    /\ pc = "call"
    /\ Returned(readU1s(R(pos, modSize)), "readU1s", 0)

NextPrim == CallReadVX \/ CallReadS0 \/ CallReadValue \/ CallReadU1s

SpecPrim == InitPrim /\ [][NextPrim]_vars

----------------------------------------------------------------------------
(* generateMaterials called by the consumer on the layer of a decoded      *)
(* file: one layer whose ptags hold a MATR list, and a tag-name table.     *)

MATR == ID4("M", "A", "T", "R")
Red == <<82, 101, 100>>
Blue == <<66, 108, 117, 101>>

PtagPairs == {<<p, t>> : p \in 0..2, t \in 0..1}
TagTables == {None, Some(<<>>), Some(<<Red>>), Some(<<Red, Blue>>),
              Some(<<Red, Red>>)}

InitMat ==
    /\ data = <<>>
    /\ pos = 0
    /\ modSize = 0
    /\ pc = "done"
    /\ \E pt \in SeqsUpTo(PtagPairs, MaxPtags), tn \in TagTables,
          has \in BOOLEAN :
          lxoFile = [LXOFile EXCEPT
                       !.tagnames = tn,
                       !.layers = <<[LXOLayer(<<>>, 0, 0, 0) EXCEPT
                                       !.ptags = IF has
                                                 THEN Put(EmptyDict, MATR, pt)
                                                 ELSE EmptyDict]>>]
    /\ Idle

(* The consumer calls layer.generateMaterials() on layer l of the file     *)
(* readFromFile returned.  An exception leaves the entries made so far.    *)
GenerateMaterials ==
    /\ pc = "done"
    /\ err = ""
    /\ calls < MaxCalls
    /\ \E l \in 1..Len(lxoFile.layers) :
          LET g == generateMaterials(lxoFile.layers[l], lxoFile.tagnames) IN
          /\ lxoFile' = [lxoFile EXCEPT !.layers[l].materials = g.m]
          /\ err' = g.err
    /\ calls' = calls + 1
    /\ UNCHANGED <<data, tagsToRead, DEBUG, pos, modSize, pc, currentLayer,
                   sizeSnap, chunkSize, currentActionItem, arg, ret, short>>

SpecMat == InitMat /\ [][GenerateMaterials]_vars

----------------------------------------------------------------------------
(* readFromFile and the top-level chunk walker __readChunks.  One step is  *)
(* one pass of the while loop: the chunk header, then the skip or the      *)
(* decoder the tag selects.  An exception ends the decode: readFromFile    *)
(* returns no aggregate, so the aggregate is left as it was.               *)

FORM == ID4("F", "O", "R", "M")

(* The reader as the walker holds it. *)
Here == R(pos, modSize)

(* chunkID = readID4(); chunkSize = readU4(); sizeSnap = modSize *)
Hdr ==
    LET a == readID4(Here)
        b == readU4(a)
    IN  [id |-> a.v, size |-> b.v, r |-> b]

(* self.tagsToRead and key not in self.tagsToRead *)
Filtered(key) == tagsToRead # {} /\ key \notin tagsToRead

(* The tags __readChunks has a decoder for. *)
KnownTags ==
    {ID4("D", "E", "S", "C"), ID4("V", "R", "S", "N"), ID4("A", "P", "P", "V"),
     ID4("E", "N", "C", "O"), ID4("T", "A", "G", "S"), ID4("C", "H", "N", "M"),
     ID4("L", "A", "Y", "R"), ID4("P", "O", "L", "S"), ID4("P", "N", "T", "S"),
     ID4("V", "M", "A", "P"), ID4("V", "M", "A", "D"), ID4("P", "T", "A", "G"),
     ID4("E", "N", "V", "L"), ID4("B", "B", "O", "X"), ID4("I", "T", "E", "M"),
     ID4("A", "C", "T", "N")}

(* The loop is about to read a chunk header. *)
InLoop == pc = "chunks" /\ modSize > 0

(* The header was read and the chunk goes to the decoder of tag. *)
Dispatched(tag) ==
    /\ InLoop
    /\ Hdr.r.err = ""
    /\ ~Filtered(Hdr.id)
    /\ Hdr.id = tag

(* The end of one pass: reader r, aggregate f, current layer cl and        *)
(* current action item cai, to continue at position next.                  *)
PassTo(r, f, cl, cai, next) ==
    /\ pos' = r.pos
    /\ modSize' = r.mod
    /\ sizeSnap' = Hdr.r.mod
    /\ chunkSize' = Hdr.size
    /\ short' = (short \/ Hdr.r.pos + Hdr.size > Len(data))
    /\ IF r.err # ""
       THEN /\ pc' = "error"
            /\ err' = r.err
            /\ UNCHANGED <<lxoFile, currentLayer, currentActionItem>>
       ELSE /\ pc' = next
            /\ err' = ""
            /\ lxoFile' = f
            /\ currentLayer' = cl
            /\ currentActionItem' = cai
    /\ UNCHANGED <<data, tagsToRead, DEBUG, arg, ret, calls>>

Pass(r, f, cl, next) == PassTo(r, f, cl, currentActionItem, next)

(* self.file.seek(n, 1) never fails, also not beyond the end of the file. *)
seek(r, n) == [r EXCEPT !.pos = @ + n]

(* readFromFile up to the call of __readChunks. *)
ReadForm ==
    /\ pc = "start"
    /\ LET form == Fixed(Here, 4, IdBytes)
           size == readU4(form)
           \* neither read touches the budget; then self.modSize = size
           sized == IF size.err = "" THEN [size EXCEPT !.mod = size.v]
                    ELSE [size EXCEPT !.mod = modSize]
           sceneType == readID4(sized)
           r == IF sceneType.err = "" /\ form.v # FORM
                THEN [sceneType EXCEPT !.err = "not a valid file"]
                ELSE sceneType
       IN  /\ pos' = r.pos
           /\ modSize' = r.mod
           /\ IF r.err # ""
              THEN /\ pc' = "error"
                   /\ err' = r.err
                   /\ UNCHANGED lxoFile
              ELSE /\ pc' = "chunks"
                   /\ err' = ""
                   /\ lxoFile' = [lxoFile EXCEPT !.size = size.v,
                                                 !.type = Some(sceneType.v)]
    /\ UNCHANGED <<data, tagsToRead, DEBUG, currentLayer, sizeSnap, chunkSize,
                   currentActionItem, arg, ret, calls, short>>

(* while self.modSize > 0 fails: readFromFile returns the aggregate. *)
Return ==
    /\ pc = "chunks"
    /\ modSize <= 0
    /\ pc' = "done"
    /\ UNCHANGED <<data, tagsToRead, DEBUG, pos, modSize, err, lxoFile,
                   currentLayer, sizeSnap, chunkSize, currentActionItem, arg,
                   ret, calls, short>>

(* The chunk header cannot be read. *)
HeaderError ==
    /\ InLoop
    /\ Hdr.r.err # ""
    /\ pos' = Hdr.r.pos
    /\ modSize' = Hdr.r.mod
    /\ pc' = "error"
    /\ err' = Hdr.r.err
    /\ UNCHANGED <<data, tagsToRead, DEBUG, lxoFile, currentLayer, sizeSnap,
                   chunkSize, currentActionItem, arg, ret, calls, short>>

(* A skip that moves the cursor and leaves the budget alone: what the     *)
(* skip branches are not.                                                  *)
seekOnly(r, size) == seek(r, size)

(* The chunk is excluded by the filter: budget and cursor move past it. *)
skipChunk(r, size) == seek([r EXCEPT !.mod = @ - size], size)

SkipFiltered ==
    /\ InLoop
    /\ Hdr.r.err = ""
    /\ Filtered(Hdr.id)
    /\ Pass(skipChunk(Hdr.r, Hdr.size), lxoFile, currentLayer, "chunks")

(* The final else: a tag without a decoder. *)
SkipUnknown ==
    /\ InLoop
    /\ Hdr.r.err = ""
    /\ ~Filtered(Hdr.id)
    /\ Hdr.id \notin KnownTags
    /\ Pass(skipChunk(Hdr.r, Hdr.size), lxoFile, currentLayer, "chunks")

DESC ==
    /\ Dispatched(ID4("D", "E", "S", "C"))
    /\ LET presetType == readS0(Hdr.r)
           presetDescription == readS0(presetType)
       IN  Pass(presetDescription, lxoFile, currentLayer, "chunks")

VRSN ==
    /\ Dispatched(ID4("V", "R", "S", "N"))
    /\ LET major == readU4(Hdr.r)
           minor == readU4(major)
           app == readS0(minor)
       IN  Pass(app, [lxoFile EXCEPT !.version = Some(major.v),
                                     !.appversion = Some(app.v)],
                currentLayer, "chunks")

APPV ==
    /\ Dispatched(ID4("A", "P", "P", "V"))
    /\ LET major == readU4(Hdr.r)
           minor == readU4(major)
           unknown == readU4(minor)
           build == readU4(unknown)
           level == readS0(build)
       IN  Pass(level, lxoFile, currentLayer, "chunks")

(* sENCODINGS[encoding] is evaluated only to be printed under DEBUG. *)
ENCO ==
    /\ Dispatched(ID4("E", "N", "C", "O"))
    /\ LET encoding == readU4(Hdr.r)
           r == IF encoding.err = "" /\ DEBUG /\ encoding.v >= NumEncodings
                THEN [encoding EXCEPT !.err = "IndexError"]
                ELSE encoding
       IN  Pass(r, [lxoFile EXCEPT !.encoding = Some(encoding.v)],
                currentLayer, "chunks")

(* while (sizeSnap - self.modSize) < chunkSize: tags.append(readS0()) *)
RECURSIVE tagsLoop(_, _, _, _)
tagsLoop(r, tags, snap, size) ==
    IF r.err # "" THEN r
    ELSE IF snap - r.mod < size
         THEN LET s == readS0(r) IN tagsLoop(s, Append(tags, s.v), snap, size)
         ELSE [r EXCEPT !.v = tags]

TAGS ==
    /\ Dispatched(ID4("T", "A", "G", "S"))
    /\ LET tags == tagsLoop(Hdr.r, <<>>, Hdr.r.mod, Hdr.size)
       IN  Pass(tags, [lxoFile EXCEPT !.tagnames = Some(tags.v)],
                currentLayer, "chunks")

(* for i in range(count): names.append(readS0()) *)
RECURSIVE namesLoop(_, _, _)
namesLoop(r, names, count) ==
    IF r.err # "" THEN r
    ELSE IF count > 0
         THEN LET s == readS0(r) IN namesLoop(s, Append(names, s.v), count - 1)
         ELSE [r EXCEPT !.v = names]

CHNM ==
    /\ Dispatched(ID4("C", "H", "N", "M"))
    /\ LET count == readU4(Hdr.r)
           names == namesLoop(count, <<>>, count.v)
       IN  Pass(names, [lxoFile EXCEPT !.channelNames = Some(names.v)],
                currentLayer, "chunks")

(* n reads of a field whose value is not kept. *)
RECURSIVE readU4s(_, _)
readU4s(r, n) == IF n = 0 THEN r ELSE readU4s(readU4(r), n - 1)
RECURSIVE readU2s(_, _)
readU2s(r, n) == IF n = 0 THEN r ELSE readU2s(readU2(r), n - 1)

(* A blob of the whole declared size, whatever was read before it: what   *)
(* blobsize is not.                                                        *)
blobWhole(r, snap, size) == size

(* blobsize = chunkSize - (sizeSnap - self.modSize) *)
blobsize(r, snap, size) == size - (snap - r.mod)

LAYR ==
    /\ Dispatched(ID4("L", "A", "Y", "R"))
    /\ LET indexLegacy == readU2(Hdr.r)
           flags == readU2(indexLegacy)
           rotPivot == readVEC12(flags)
           name == readS0(rotPivot)
           parentLegacy == readI2(name)
           refineSubD == readF4(parentLegacy)
           refineCrvs == readF4(refineSubD)
           sclPivot == readVEC12(refineCrvs)
           unused6 == readU4s(sclPivot, 6)
           itemReference == readU4(unused6)
           refineSplPtch == readU2(itemReference)
           unused4 == readU2s(refineSplPtch, 4)
           CCrenderlvl == readU2(unused4)
           CCpreviewlvl == readU2(CCrenderlvl)
           subDrenderlvl == readU2(CCpreviewlvl)
           blob == readblob(subDrenderlvl,
                            blobsize(subDrenderlvl, Hdr.r.mod, Hdr.size))
       IN  Pass(blob,
                addLayer(lxoFile, name.v, refineSubD.v, CCpreviewlvl.v,
                         itemReference.v),
                Len(lxoFile.layers) + 1, "chunks")

ENVL ==
    /\ Dispatched(ID4("E", "N", "V", "L"))
    /\ LET index == readVX(Hdr.r)
           type == readU4(index)
           subchunks == readblob(type, blobsize(type, Hdr.r.mod, Hdr.size))
       IN  Pass(subchunks, lxoFile, currentLayer, "chunks")

BBOX ==
    /\ Dispatched(ID4("B", "B", "O", "X"))
    /\ LET minXYZ == readVEC12(Hdr.r)
           maxXYZ == readVEC12(minXYZ)
       IN  Pass(maxXYZ, lxoFile, currentLayer, "chunks")

(* An attribute of currentLayer is used: AttributeError when it is None. *)
useLayer(r, cl) ==
    IF r.err = "" /\ cl = 0 THEN [r EXCEPT !.err = "AttributeError"] ELSE r

(* for i in range(n): polyPoints.append(readVX()) *)
RECURSIVE vxLoop(_, _, _)
vxLoop(r, acc, n) ==
    IF r.err # "" THEN r
    ELSE IF n > 0
         THEN LET v == readVX(r) IN vxLoop(v, Append(acc, v.v), n - 1)
         ELSE [r EXCEPT !.v = acc]

(* for val in range(n): vv.append(readFloat()) *)
RECURSIVE floatsLoop(_, _, _)
floatsLoop(r, acc, n) ==
    IF r.err # "" THEN r
    ELSE IF n > 0
         THEN LET v == readFloat(r) IN floatsLoop(v, Append(acc, v.v), n - 1)
         ELSE [r EXCEPT !.v = acc]

(* The POLS loop: each polygon is appended to currentLayer.polygons as     *)
(* soon as it is read.  polys are the polygons of the layer so far.        *)
RECURSIVE polsLoop(_, _, _, _, _)
polsLoop(r, polys, snap, size, cl) ==
    IF r.err # "" THEN r
    ELSE IF snap - r.mod < size
         THEN LET vertCount == readU2(r)
                  polyPoints == useLayer(vxLoop(vertCount, <<>>, vertCount.v),
                                         cl)
              IN  polsLoop(polyPoints, Append(polys, polyPoints.v), snap, size,
                           cl)
         ELSE [r EXCEPT !.v = polys]

SubdTypes == {ID4("S", "U", "B", "D"), ID4("P", "S", "U", "B")}

POLS ==
    /\ Dispatched(ID4("P", "O", "L", "S"))
    /\ LET polyType == readID4(Hdr.r)
           subd == polyType.err = "" /\ polyType.v \in SubdTypes
           marked == IF subd THEN useLayer(polyType, currentLayer)
                     ELSE polyType
           had == IF currentLayer = 0 THEN <<>>
                  ELSE lxoFile.layers[currentLayer].polygons
           polys == polsLoop(marked, had, Hdr.r.mod, Hdr.size, currentLayer)
           \* currentLayer.polyCount += polyCount, polyCount being 0
           counted == useLayer(polys, currentLayer)
       IN  Pass(counted,
                IF currentLayer = 0 THEN lxoFile
                ELSE [lxoFile EXCEPT
                        !.layers[currentLayer].isSubD = (@ \/ subd),
                        !.layers[currentLayer].polygons = polys.v],
                currentLayer, "chunks")

(* while (sizeSnap - self.modSize) < chunkSize: points.append(readVEC12()) *)
RECURSIVE pointsLoop(_, _, _, _)
pointsLoop(r, points, snap, size) ==
    IF r.err # "" THEN r
    ELSE IF snap - r.mod < size
         THEN LET v == readVEC12(r)
              IN  pointsLoop(v, Append(points, v.v), snap, size)
         ELSE [r EXCEPT !.v = points]

(* currentLayer.points = points: the list read replaces the layer's. *)
PNTS ==
    /\ Dispatched(ID4("P", "N", "T", "S"))
    /\ LET points == pointsLoop(Hdr.r, <<>>, Hdr.r.mod, Hdr.size)
           set == useLayer(points, currentLayer)
       IN  Pass(set,
                IF currentLayer = 0 THEN lxoFile
                ELSE [lxoFile EXCEPT !.layers[currentLayer].points = points.v],
                currentLayer, "chunks")

TXUV == ID4("T", "X", "U", "V")

(* The VMAP loop: values[index] = vv *)
RECURSIVE vmapLoop(_, _, _, _, _)
vmapLoop(r, values, snap, size, dimension) ==
    IF r.err # "" THEN r
    ELSE IF snap - r.mod < size
         THEN LET index == readVX(r)
                  vv == floatsLoop(index, <<>>, dimension)
              IN  vmapLoop(vv, Put(values, index.v, vv.v), snap, size,
                           dimension)
         ELSE [r EXCEPT !.v = values]

VMAP ==
    /\ Dispatched(ID4("V", "M", "A", "P"))
    /\ LET mapType == readID4(Hdr.r)
           dimension == readU2(mapType)
           name == readS0(dimension)
           values == vmapLoop(name, EmptyDict, Hdr.r.mod, Hdr.size,
                              dimension.v)
           keep == values.err = "" /\ mapType.v = TXUV
           set == IF keep THEN useLayer(values, currentLayer) ELSE values
       IN  Pass(set,
                IF keep /\ currentLayer # 0
                THEN [lxoFile EXCEPT !.layers[currentLayer].uvMaps =
                                        Put(@, name.v, values.v)]
                ELSE lxoFile,
                currentLayer, "chunks")

(* The VMAD loop: values[polyIndex][vertIndex] = vv *)
RECURSIVE vmadLoop(_, _, _, _, _)
vmadLoop(r, values, snap, size, dimension) ==
    IF r.err # "" THEN r
    ELSE IF snap - r.mod < size
         THEN LET vertIndex == readVX(r)
                  polyIndex == readVX(vertIndex)
                  vv == floatsLoop(polyIndex, <<>>, dimension)
                  old == IF polyIndex.v \in DOMAIN values
                         THEN values[polyIndex.v] ELSE EmptyDict
              IN  vmadLoop(vv,
                           Put(values, polyIndex.v,
                               Put(old, vertIndex.v, vv.v)),
                           snap, size, dimension)
         ELSE [r EXCEPT !.v = values]

VMAD ==
    /\ Dispatched(ID4("V", "M", "A", "D"))
    /\ LET mapType == readID4(Hdr.r)
           dimension == readU2(mapType)
           name == readS0(dimension)
           values == vmadLoop(name, EmptyDict, Hdr.r.mod, Hdr.size,
                              dimension.v)
           keep == values.err = "" /\ mapType.v = TXUV
           set == IF keep THEN useLayer(values, currentLayer) ELSE values
       IN  Pass(set,
                IF keep /\ currentLayer # 0
                THEN [lxoFile EXCEPT !.layers[currentLayer].uvMapsDisco =
                                        Put(@, name.v, values.v)]
                ELSE lxoFile,
                currentLayer, "chunks")

(* The PTAG loop: ptags.append((polsIndex, tagsIndex)) *)
RECURSIVE ptagLoop(_, _, _, _)
ptagLoop(r, ptags, snap, size) ==
    IF r.err # "" THEN r
    ELSE IF snap - r.mod < size
         THEN LET polsIndex == readVX(r)
                  tagsIndex == readU2(polsIndex)
              IN  ptagLoop(tagsIndex,
                           Append(ptags, <<polsIndex.v, tagsIndex.v>>),
                           snap, size)
         ELSE [r EXCEPT !.v = ptags]

PTAG ==
    /\ Dispatched(ID4("P", "T", "A", "G"))
    /\ LET tagType == readID4(Hdr.r)
           ptags == ptagLoop(tagType, <<>>, Hdr.r.mod, Hdr.size)
           set == useLayer(ptags, currentLayer)
       IN  Pass(set,
                IF currentLayer = 0 THEN lxoFile
                ELSE [lxoFile EXCEPT !.layers[currentLayer].ptags =
                                        Put(@, tagType.v, ptags.v)],
                currentLayer, "chunks")

----------------------------------------------------------------------------
(* The ITEM body.  The ITEM chunk creates the item and the walk of its     *)
(* subchunks follows, one subchunk per step, bounded by the sizeSnap and   *)
(* chunkSize of the ITEM chunk.  The item being built is the last one.     *)

ITEMTag == ID4("I", "T", "E", "M")
ACTNTag == ID4("A", "C", "T", "N")

ITEM ==
    /\ Dispatched(ITEMTag)
    /\ LET typename == readS0(Hdr.r)
           name == readS0(typename)
           referenceID == readU4(name)
       IN  Pass(referenceID,
                addItem(lxoFile, name.v, referenceID.v, typename.v),
                currentLayer, "item")

(* subchunkID = readID4(); subchunkSize = readU2(); subsizeSnap = modSize *)
SubHdr ==
    LET a == readID4(Here)
        b == readU2(a)
    IN  [id |-> a.v, size |-> b.v, r |-> b]

(* while (sizeSnap - self.modSize) < chunkSize *)
InBody(p) == pc = p /\ sizeSnap - modSize < chunkSize

(* The end of one pass of a subchunk loop. *)
SubPass(r, f, cai, next) ==
    /\ pos' = r.pos
    /\ modSize' = r.mod
    /\ IF r.err # ""
       THEN /\ pc' = "error"
            /\ err' = r.err
            /\ UNCHANGED <<lxoFile, currentActionItem>>
       ELSE /\ pc' = next
            /\ err' = ""
            /\ lxoFile' = f
            /\ currentActionItem' = cai
    /\ UNCHANGED <<data, tagsToRead, DEBUG, currentLayer, sizeSnap, chunkSize,
                   arg, ret, calls, short>>

(* The body is exhausted: back to the top-level loop. *)
BodyEnd ==
    /\ pc \in {"item", "actn"}
    /\ ~(sizeSnap - modSize < chunkSize)
    /\ pc' = "chunks"
    /\ UNCHANGED <<data, tagsToRead, DEBUG, pos, modSize, err, lxoFile,
                   currentLayer, sizeSnap, chunkSize, currentActionItem, arg,
                   ret, calls, short>>

(* The subchunk header cannot be read. *)
SubHeaderError ==
    /\ InBody("item") \/ InBody("actn")
    /\ SubHdr.r.err # ""
    /\ SubPass(SubHdr.r, lxoFile, currentActionItem, pc)

(* The subchunk of the ITEM body goes to the decoder of tag. *)
ItemSub(tag) ==
    /\ InBody("item")
    /\ SubHdr.r.err = ""
    /\ ~Filtered(ITEMTag \o SubHdr.id)
    /\ SubHdr.id = tag

ItemKnown ==
    {ID4("P", "A", "K", "G"), ID4("X", "R", "E", "F"), ID4("L", "A", "Y", "R"),
     ID4("L", "I", "N", "K"), ID4("C", "H", "N", "L"), ID4("C", "H", "N", "S"),
     ID4("C", "H", "A", "N"), ID4("C", "H", "N", "V"), ID4("I", "T", "A", "G"),
     ID4("V", "N", "A", "M"), ID4("U", "N", "I", "Q"), ID4("U", "I", "D", "X"),
     ID4("C", "H", "N", "C"), ID4("B", "C", "H", "N")}

(* The aggregate with field updates upd applied to the item being built. *)
item == lxoFile.items[Len(lxoFile.items)]
withItem(it) == [lxoFile EXCEPT !.items[Len(lxoFile.items)] = it]

ItemPass(r, it) == SubPass(r, withItem(it), currentActionItem, "item")

(* The subchunk is excluded by the filter key "ITEM" + subchunkID. *)
ItemSkipFiltered ==
    /\ InBody("item")
    /\ SubHdr.r.err = ""
    /\ Filtered(ITEMTag \o SubHdr.id)
    /\ SubPass(skipChunk(SubHdr.r, SubHdr.size), lxoFile, currentActionItem,
               "item")

ItemPAKG ==
    /\ ItemSub(ID4("P", "A", "K", "G"))
    /\ LET packageName == readS0(SubHdr.r)
           reserved == readU4(packageName)
       IN  ItemPass(reserved,
                    [item EXCEPT !.packages = Append(@, packageName.v)])

ItemXREF ==
    /\ ItemSub(ID4("X", "R", "E", "F"))
    /\ LET indexSubScene == readU4(SubHdr.r)
           filename == readS0(indexSubScene)
           itemId == readS0(filename)
       IN  ItemPass(itemId, item)

ItemLAYR ==
    /\ ItemSub(ID4("L", "A", "Y", "R"))
    /\ LET index == readU4(SubHdr.r)
           flags == readU4(index)
           rgbs == readU14(flags)
       IN  ItemPass(rgbs,
                    [item EXCEPT !.LAYR = Some(<<index.v, flags.v, rgbs.v>>)])

ItemLINK ==
    /\ ItemSub(ID4("L", "I", "N", "K"))
    /\ LET graphname == readS0(SubHdr.r)
           itemIndex == readI4(graphname)
           linkIndex == readI4(itemIndex)
       IN  ItemPass(linkIndex,
                    [item EXCEPT !.graphLinks =
                        Put(@, graphname.v, <<itemIndex.v, linkIndex.v>>)])

(* The record is appended whatever the channel-name table holds. *)
ItemCHNL ==
    /\ ItemSub(ID4("C", "H", "N", "L"))
    /\ LET name == readS0(SubHdr.r)
           datatype == readU2(name)
           value == readValue(datatype, datatype.v)
       IN  ItemPass(value,
                    [item EXCEPT !.CHNL =
                        Append(@, <<name.v, datatype.v, value.v>>)])

ItemCHNS ==
    /\ ItemSub(ID4("C", "H", "N", "S"))
    /\ LET name == readS0(SubHdr.r)
           value == readS0(name)
       IN  ItemPass(value, [item EXCEPT !.channel = Put(@, name.v, value.v)])

(* lxoFile.channelNames[index]: TypeError on None, IndexError past the end *)
channelName(r, index) ==
    IF r.err # "" THEN r
    ELSE IF lxoFile.channelNames = None THEN [r EXCEPT !.err = "TypeError"]
    ELSE IF index >= Len(lxoFile.channelNames[1])
         THEN [r EXCEPT !.err = "IndexError"]
         ELSE [r EXCEPT !.v = lxoFile.channelNames[1][index + 1]]

ItemCHAN ==
    /\ ItemSub(ID4("C", "H", "A", "N"))
    /\ LET index == readVX(SubHdr.r)
           datatype == readU2(index)
           value == readValue(datatype, datatype.v)
           name == channelName(value, index.v)
       IN  ItemPass(name, [item EXCEPT !.channel = Put(@, name.v, value.v)])

(* for i in range(vectorcount): vec.append((readS0(), readValue(datatype))) *)
RECURSIVE vecLoop(_, _, _, _)
vecLoop(r, vec, n, datatype) ==
    IF r.err # "" THEN r
    ELSE IF n > 0
         THEN LET cname == readS0(r)
                  value == readValue(cname, datatype)
              IN  vecLoop(value, Append(vec, <<cname.v, value.v>>), n - 1,
                          datatype)
         ELSE [r EXCEPT !.v = vec]

ItemCHNV ==
    /\ ItemSub(ID4("C", "H", "N", "V"))
    /\ LET name == readS0(SubHdr.r)
           datatype == readU2(name)
           vectorcount == readU2(datatype)
           vec == vecLoop(vectorcount, <<>>, vectorcount.v, datatype.v)
       IN  ItemPass(vec, [item EXCEPT !.CHNV = Put(@, name.v, vec.v)])

ItemITAG ==
    /\ ItemSub(ID4("I", "T", "A", "G"))
    /\ LET type == readID4(SubHdr.r)
           value == readS0(type)
       IN  ItemPass(value,
                    [item EXCEPT !.itemTags = Append(@, <<type.v, value.v>>)])

ItemVNAM ==
    /\ ItemSub(ID4("V", "N", "A", "M"))
    /\ LET name == readS0(SubHdr.r)
       IN  ItemPass(name, [item EXCEPT !.vname = Some(name.v)])

ItemUNIQ ==
    /\ ItemSub(ID4("U", "N", "I", "Q"))
    /\ ItemPass(readS0(SubHdr.r), item)

ItemUIDX ==
    /\ ItemSub(ID4("U", "I", "D", "X"))
    /\ ItemPass(readU4(SubHdr.r), item)

(* data = ""; data += self.readU1() joins a str and an int: TypeError on   *)
(* the first byte.  Only a size of 0 gets past the loop.                   *)
ItemCHNC ==
    /\ ItemSub(ID4("C", "H", "N", "C"))
    /\ LET size == readU2(SubHdr.r)
           first == readU1(size)
           r == IF size.err # "" \/ size.v = 0 THEN size
                ELSE IF first.err # "" THEN first
                ELSE [first EXCEPT !.err = "TypeError"]
       IN  ItemPass(r, [item EXCEPT !.CHNC = Append(@, <<>>)])

ItemBCHN ==
    /\ ItemSub(ID4("B", "C", "H", "N"))
    /\ LET operationType == readS0(SubHdr.r)
           d == readU4(operationType)
       IN  ItemPass(d, item)

(* The final else, GRAD, CLNK and UCHN included: an opaque blob. *)
ItemBlob ==
    /\ InBody("item")
    /\ SubHdr.r.err = ""
    /\ ~Filtered(ITEMTag \o SubHdr.id)
    /\ SubHdr.id \notin ItemKnown
    /\ ItemPass(readblob(SubHdr.r,
                         blobsize(SubHdr.r, SubHdr.r.mod, SubHdr.size)),
                item)

----------------------------------------------------------------------------
(* The ACTN body, __readACTN.  The action layer being built is the last    *)
(* one, and currentActionItem indexes its items.                           *)

ACTN ==
    /\ Dispatched(ACTNTag)
    /\ LET actionlayername == readS0(Hdr.r)
           actionlayertype == readS0(actionlayername)
           actionlayerindex == readU4(actionlayertype)
       IN  PassTo(actionlayerindex,
                  addActionLayer(lxoFile, actionlayername.v,
                                 actionlayertype.v, actionlayerindex.v),
                  currentLayer, 0, "actn")

(* __readACTN has no chunkID: with a non-empty filter the test            *)
(* chunkID + subchunkID not in self.tagsToRead raises NameError.           *)
ActnNameError ==
    /\ InBody("actn")
    /\ SubHdr.r.err = ""
    /\ tagsToRead # {}
    /\ SubPass([SubHdr.r EXCEPT !.err = "NameError"], lxoFile,
               currentActionItem, "actn")

ActnSub(tag) ==
    /\ InBody("actn")
    /\ SubHdr.r.err = ""
    /\ tagsToRead = {}
    /\ SubHdr.id = tag

ActnKnown ==
    {ID4("I", "T", "E", "M"), ID4("C", "H", "A", "N"), ID4("G", "R", "A", "D"),
     ID4("C", "H", "N", "S")}

actionLayer == lxoFile.actionLayers[Len(lxoFile.actionLayers)]
withActionLayer(al) ==
    [lxoFile EXCEPT !.actionLayers[Len(lxoFile.actionLayers)] = al]

(* An attribute of currentActionItem is used. *)
useActionItem(r) ==
    IF r.err = "" /\ currentActionItem = 0
    THEN [r EXCEPT !.err = "AttributeError"] ELSE r

ActnITEM ==
    /\ ActnSub(ID4("I", "T", "E", "M"))
    /\ LET itemReferenceID == readU4(SubHdr.r)
       IN  SubPass(itemReferenceID,
                   withActionLayer(
                     [actionLayer EXCEPT !.items =
                        Append(@, ActionLayerItem(itemReferenceID.v))]),
                   Len(actionLayer.items) + 1, "actn")

ActnCHAN ==
    /\ ActnSub(ID4("C", "H", "A", "N"))
    /\ LET index == readVX(SubHdr.r)
           datatype == readU2(index)
           indexENVL == readVX(datatype)
           value == readValue(indexENVL, datatype.v)
           name == channelName(value, index.v)
           r == useActionItem(name)
       IN  SubPass(r,
                   IF r.err # "" THEN lxoFile
                   ELSE withActionLayer(
                          [actionLayer EXCEPT
                             !.items[currentActionItem].CHAN =
                                Append(@, <<name.v, datatype.v, indexENVL.v,
                                            value.v>>)]),
                   currentActionItem, "actn")

ActnGRAD ==
    /\ ActnSub(ID4("G", "R", "A", "D"))
    /\ LET blob == readblob(SubHdr.r,
                            blobsize(SubHdr.r, SubHdr.r.mod, SubHdr.size))
           r == useActionItem(blob)
       IN  SubPass(r,
                   IF r.err # "" THEN lxoFile
                   ELSE withActionLayer(
                          [actionLayer EXCEPT
                             !.items[currentActionItem].GRAD =
                                Append(@, blob.v)]),
                   currentActionItem, "actn")

ActnCHNS ==
    /\ ActnSub(ID4("C", "H", "N", "S"))
    /\ LET name == readS0(SubHdr.r)
           index == readVX(name)
           value == readS0(index)
           cname == channelName(value, index.v)
           r == useActionItem(cname)
       IN  SubPass(r,
                   IF r.err # "" THEN lxoFile
                   ELSE withActionLayer(
                          [actionLayer EXCEPT
                             !.items[currentActionItem].stringChannels =
                                Append(@, <<name.v, cname.v, value.v>>)]),
                   currentActionItem, "actn")

ActnBlob ==
    /\ InBody("actn")
    /\ SubHdr.r.err = ""
    /\ tagsToRead = {}
    /\ SubHdr.id \notin ActnKnown
    /\ SubPass(readblob(SubHdr.r,
                        blobsize(SubHdr.r, SubHdr.r.mod, SubHdr.size)),
               lxoFile, currentActionItem, "actn")

----------------------------------------------------------------------------
(* The files the reader is run on, written as the format lays them out.    *)

U2e(n) == <<n \div 256, n % 256>>
U4e(n) == <<n \div 16777216, (n \div 65536) % 256, (n \div 256) % 256,
            n % 256>>
S0e(s) == IF Len(s) % 2 = 0 THEN s \o <<0, 0>> ELSE s \o <<0>>
Zeros(n) == [i \in 1..n |-> 0]
F4e(n) == U4e(n)
Vec(a, b, c) == F4e(a) \o F4e(b) \o F4e(c)

Chunk(tag, size, payload) == tag \o U4e(size) \o payload
Sub(tag, size, payload) == tag \o U2e(size) \o payload
(* A chunk or subchunk whose declared size is the length of its payload. *)
ChunkX(tag, payload) == Chunk(tag, Len(payload), payload)
SubX(tag, payload) == Sub(tag, Len(payload), payload)

RECURSIVE Flatten(_)
Flatten(ss) == IF Len(ss) = 0 THEN <<>> ELSE ss[1] \o Flatten(Tail(ss))

Form(body) == FORM \o U4e(Len(body) + 4) \o ID4("L", "X", "O", "B") \o body

StrA == <<65>>
StrB == <<66>>
XXXX == ID4("X", "X", "X", "X")
FACE == ID4("F", "A", "C", "E")

LayrBody(name, ref, blob) ==
    U2e(0) \o U2e(0) \o Vec(0, 0, 0) \o S0e(name) \o U2e(65535) \o F4e(1)
    \o F4e(2) \o Vec(0, 0, 0) \o Zeros(24) \o U4e(ref) \o U2e(0) \o Zeros(8)
    \o U2e(1) \o U2e(2) \o U2e(3) \o blob

ItemBody(subs) == S0e(StrA) \o S0e(StrB) \o U4e(7) \o subs
ActnBody(subs) == S0e(StrA) \o S0e(StrB) \o U4e(1) \o subs

TagsRed == ChunkX(ID4("T", "A", "G", "S"), S0e(Red))
ChnmA == ChunkX(ID4("C", "H", "N", "M"), U4e(1) \o S0e(StrA))
Layr == ChunkX(ID4("L", "A", "Y", "R"), LayrBody(StrA, 7, <<>>))
Pnts1 == ChunkX(ID4("P", "N", "T", "S"), Vec(1, 2, 3))
Pols(poly) == ChunkX(ID4("P", "O", "L", "S"),
                     FACE \o U2e(Len(poly)) \o Flatten([i \in 1..Len(poly)
                                                          |-> U2e(poly[i])]))
PtagMatr(p, t) == ChunkX(ID4("P", "T", "A", "G"), MATR \o U2e(p) \o U2e(t))
Unknown == ChunkX(XXXX, <<1, 2>>)

(* The chunks files of up to MaxChunks chunks are built from. *)
CoreChunks ==
    {TagsRed, ChnmA, Layr, Pnts1, Pols(<<0>>), Pols(<<0, 1>>),
     PtagMatr(0, 0), Unknown}

(* The chunks that come alone or after one chunk of context. *)
TopExtra ==
    {ChunkX(ID4("D", "E", "S", "C"), S0e(StrA) \o S0e(StrB)),
     ChunkX(ID4("V", "R", "S", "N"), U4e(5) \o U4e(1) \o S0e(StrA)),
     Chunk(ID4("V", "R", "S", "N"), 100, U4e(5) \o U4e(1) \o S0e(StrA)),
     ChunkX(ID4("A", "P", "P", "V"), U4e(1) \o U4e(2) \o U4e(3) \o U4e(4)
                                      \o S0e(StrA)),
     ChunkX(ID4("E", "N", "C", "O"), U4e(2)),
     ChunkX(ID4("E", "N", "C", "O"), U4e(7)),
     ChunkX(ID4("E", "N", "C", "O"), U4e(8)),
     Chunk(ID4("E", "N", "C", "O"), 0, U4e(1)),
     Chunk(ID4("T", "A", "G", "S"), 1, S0e(Red)),
     ChunkX(ID4("T", "A", "G", "S"), S0e(Red) \o S0e(Blue)),
     ChunkX(ID4("T", "A", "G", "S"), S0e(Blue)),
     Chunk(ID4("C", "H", "N", "M"), 6, U4e(2) \o S0e(StrA)),
     ChunkX(ID4("C", "H", "N", "M"), U4e(2) \o S0e(StrA) \o S0e(StrB)),
     Chunk(ID4("L", "A", "Y", "R"), 4, LayrBody(StrB, 9, <<>>)),
     ChunkX(ID4("L", "A", "Y", "R"), LayrBody(StrB, 9, <<1, 2>>)),
     ChunkX(ID4("P", "O", "L", "S"),
            ID4("S", "U", "B", "D") \o U2e(1) \o U2e(0)),
     ChunkX(ID4("P", "O", "L", "S"), FACE \o U2e(1) \o <<255, 0, 0, 1>>),
     Chunk(ID4("P", "O", "L", "S"), 0, FACE),
     Chunk(ID4("P", "N", "T", "S"), 1, Vec(1, 2, 3)),
     ChunkX(ID4("P", "N", "T", "S"), Vec(1, 2, 3) \o Vec(4, 5, 6)),
     ChunkX(ID4("V", "M", "A", "P"),
            TXUV \o U2e(2) \o S0e(StrA) \o U2e(0) \o F4e(1) \o F4e(2)),
     ChunkX(ID4("V", "M", "A", "P"),
            ID4("W", "G", "H", "T") \o U2e(1) \o S0e(StrA) \o U2e(0)
            \o F4e(1)),
     ChunkX(ID4("V", "M", "A", "D"),
            TXUV \o U2e(2) \o S0e(StrA) \o U2e(0) \o U2e(1) \o F4e(1)
            \o F4e(2)),
     ChunkX(ID4("V", "M", "A", "D"),
            ID4("W", "G", "H", "T") \o U2e(0) \o S0e(StrA)),
     ChunkX(ID4("P", "T", "A", "G"),
            MATR \o U2e(0) \o U2e(0) \o U2e(1) \o U2e(1)),
     ChunkX(ID4("E", "N", "V", "L"), U2e(0) \o U4e(1) \o <<1, 2>>),
     Chunk(ID4("E", "N", "V", "L"), 2, U2e(0) \o U4e(1)),
     ChunkX(ID4("B", "B", "O", "X"), Vec(0, 0, 0) \o Vec(1, 1, 1)),
     Chunk(ID4("B", "B", "O", "X"), 0, Vec(0, 0, 0) \o Vec(1, 1, 1)),
     Chunk(XXXX, 0, <<>>),
     Chunk(XXXX, 6, <<>>),
     <<255, 88, 88, 88>> \o U4e(0)}

(* The subchunks of an ITEM body. *)
ItemSubs ==
    {SubX(ID4("P", "A", "K", "G"), S0e(StrA) \o U4e(0)),
     SubX(ID4("X", "R", "E", "F"), U4e(1) \o S0e(StrA) \o S0e(StrB)),
     SubX(ID4("L", "A", "Y", "R"), U4e(1) \o U4e(2) \o <<1, 2, 3, 4>>),
     SubX(ID4("L", "I", "N", "K"),
          S0e(StrA) \o <<255, 255, 255, 255>> \o U4e(2)),
     SubX(ID4("C", "H", "N", "L"), S0e(StrA) \o U2e(1) \o U4e(5)),
     SubX(ID4("C", "H", "N", "L"), S0e(StrB) \o U2e(35) \o S0e(StrA)),
     SubX(ID4("C", "H", "N", "L"), S0e(StrB) \o U2e(65) \o U4e(5)),
     SubX(ID4("C", "H", "N", "S"), S0e(StrA) \o S0e(StrB)),
     SubX(ID4("C", "H", "A", "N"), U2e(0) \o U2e(2) \o F4e(5)),
     SubX(ID4("C", "H", "A", "N"), U2e(1) \o U2e(1) \o U4e(5)),
     SubX(ID4("C", "H", "N", "V"),
          S0e(StrA) \o U2e(1) \o U2e(2) \o S0e(StrA) \o U4e(1) \o S0e(StrB)
          \o U4e(2)),
     SubX(ID4("I", "T", "A", "G"), ID4("C", "M", "M", "T") \o S0e(StrA)),
     SubX(ID4("V", "N", "A", "M"), S0e(StrB)),
     SubX(ID4("U", "N", "I", "Q"), S0e(StrA)),
     SubX(ID4("U", "I", "D", "X"), U4e(3)),
     SubX(ID4("C", "H", "N", "C"), U2e(0)),
     SubX(ID4("C", "H", "N", "C"), U2e(1) \o <<7, 0>>),
     SubX(ID4("B", "C", "H", "N"), S0e(StrA) \o U4e(3)),
     SubX(ID4("G", "R", "A", "D"), <<1, 2>>),
     Sub(ID4("V", "N", "A", "M"), 8, S0e(StrB))}

(* The subchunks of an ACTN body, after the ITEM subchunk where marked. *)
ActnItem == SubX(ID4("I", "T", "E", "M"), U4e(7))
ActnSubs ==
    {<<>>,
     ActnItem,
     ActnItem \o SubX(ID4("C", "H", "A", "N"),
                      U2e(0) \o U2e(1) \o U2e(0) \o U4e(5)),
     SubX(ID4("C", "H", "A", "N"), U2e(0) \o U2e(1) \o U2e(0) \o U4e(5)),
     ActnItem \o SubX(ID4("G", "R", "A", "D"), <<1, 2>>),
     ActnItem \o SubX(ID4("C", "H", "N", "S"),
                      S0e(StrA) \o U2e(0) \o S0e(StrB)),
     SubX(ID4("P", "R", "N", "T"), <<1, 2>>)}

ItemChunks ==
    {ChunkX(ITEMTag, ItemBody(s)) : s \in ItemSubs}
    \cup {ChunkX(ITEMTag,
                 ItemBody(SubX(ID4("P", "A", "K", "G"), S0e(StrA) \o U4e(0))
                          \o SubX(ID4("V", "N", "A", "M"), S0e(StrB)))),
          ChunkX(ITEMTag, ItemBody(<<>>)),
          Chunk(ITEMTag, 20, ItemBody(<<>>))}
ActnChunks == {ChunkX(ACTNTag, ActnBody(s)) : s \in ActnSubs}

ExtraChunks == TopExtra \cup ItemChunks \cup ActnChunks

(* A whole mesh: tag table, layer, points, polygon, polygon tags. *)
Mesh == <<TagsRed, Layr, Pnts1, Pols(<<0>>), PtagMatr(0, 0)>>

(* The chunk sequences of the files: the short ones, one chunk alone or    *)
(* after one chunk of context, a whole mesh, a layer with two PNTS chunks, *)
(* two layers, a second TAGS chunk, and tag names in three- and four-byte *)
(* UTF-8.                                                                  *)
ChunkSeqs ==
    SeqsUpTo(CoreChunks, MaxChunks)
    \cup {p \o <<c>> : p \in {<<>>, <<Layr>>, <<ChnmA>>}, c \in ExtraChunks}
    \cup {Mesh, <<Unknown>> \o Mesh}
    \cup {<<Layr, Pnts1, ChunkX(ID4("P", "N", "T", "S"), Vec(4, 5, 6))>>,
          <<Layr, Pnts1, ChunkX(ID4("L", "A", "Y", "R"),
                                LayrBody(StrB, 9, <<>>)),
            ChunkX(ID4("P", "N", "T", "S"), Vec(4, 5, 6)), Pols(<<0>>),
            PtagMatr(0, 0)>>,
          <<TagsRed, Layr, ChunkX(ID4("T", "A", "G", "S"), S0e(Blue))>>,
          <<ChunkX(ID4("T", "A", "G", "S"),
                   S0e(<<226, 130, 172>>) \o S0e(<<240, 159, 152, 128>>))>>}

(* The files: well-formed containers, and one that does not start with    *)
(* FORM.                                                                   *)
Files ==
    {Form(Flatten(cs)) : cs \in ChunkSeqs}
    \cup {ID4("F", "O", "R", "X") \o U4e(4) \o ID4("L", "X", "O", "B")}

(* The filters: none, one that leaves out the mesh chunks, and one that    *)
(* leaves out the tables and names a tag without a decoder.                *)
Filters ==
    {{},
     {ID4("T", "A", "G", "S"), ID4("C", "H", "N", "M"), ITEMTag, ACTNTag,
      ITEMTag \o ID4("V", "N", "A", "M"), ITEMTag \o ID4("G", "R", "A", "D"),
      ACTNTag \o ID4("I", "T", "E", "M")},
     {ID4("L", "A", "Y", "R"), ID4("P", "N", "T", "S"),
      ID4("P", "O", "L", "S"), ID4("E", "N", "C", "O"), XXXX}}

(* The file with its last n bytes missing. *)
Cut(d, n) == SubSeq(d, 1, Len(d) - Min(n, Len(d)))

Init ==
    /\ \E f \in Files, n \in 0..MaxCut : data = Cut(f, n)
    /\ tagsToRead \in Filters
    /\ DEBUG \in BOOLEAN
    /\ (DEBUG => tagsToRead = {} /\ \E f \in Files : data = f)
    /\ pos = 0
    /\ modSize = 0
    /\ pc = "start"
    /\ err = ""
    /\ lxoFile = LXOFile
    /\ currentLayer = 0
    /\ sizeSnap = 0
    /\ chunkSize = 0
    /\ currentActionItem = 0
    /\ arg = 0
    /\ ret = 0
    /\ calls = 0
    /\ short = FALSE

Next ==
    \/ ReadForm
    \/ Return
    \/ HeaderError
    \/ SkipFiltered
    \/ SkipUnknown
    \/ DESC
    \/ VRSN
    \/ APPV
    \/ ENCO
    \/ TAGS
    \/ CHNM
    \/ LAYR
    \/ POLS
    \/ PNTS
    \/ VMAP
    \/ VMAD
    \/ PTAG
    \/ ENVL
    \/ BBOX
    \/ ITEM
    \/ ACTN
    \/ BodyEnd
    \/ SubHeaderError
    \/ ItemSkipFiltered
    \/ ItemPAKG
    \/ ItemXREF
    \/ ItemLAYR
    \/ ItemLINK
    \/ ItemCHNL
    \/ ItemCHNS
    \/ ItemCHAN
    \/ ItemCHNV
    \/ ItemITAG
    \/ ItemVNAM
    \/ ItemUNIQ
    \/ ItemUIDX
    \/ ItemCHNC
    \/ ItemBCHN
    \/ ItemBlob
    \/ ActnNameError
    \/ ActnITEM
    \/ ActnCHAN
    \/ ActnGRAD
    \/ ActnCHNS
    \/ ActnBlob

Spec == Init /\ [][Next]_vars

----------------------------------------------------------------------------
(* Claims *)
\* BEGIN CLAIMS

(* The walker is about to read a chunk header that the file holds: its   *)
(* tag and its declared size, as the bytes at the cursor spell them.       *)
AtChunk ==
    /\ pc = "chunks"
    /\ modSize > 0
    /\ Len(data) >= pos + 8
    /\ data[pos + 1] < 128
TagAhead == SubSeq(data, pos + 1, pos + 4)
SizeAhead == BE4(SubSeq(data, pos + 5, pos + 8))

(* C1: when the top-level walker skips a chunk, because the filter is      *)
(* non-empty and lacks its tag or because the tag has no decoder, the      *)
(* budget goes down by the declared size from its value after the header,  *)
(* the cursor advances by as many bytes, and the aggregate, the current    *)
(* layer and the walk itself are otherwise as before.                      *)
C1_SkipFrame ==
    [][(/\ AtChunk
        /\ \/ (tagsToRead # {} /\ TagAhead \notin tagsToRead)
           \/ TagAhead \notin KnownTags)
       => /\ sizeSnap' = modSize - 8
          /\ modSize' = sizeSnap' - SizeAhead
          /\ pos' = pos + 8 + SizeAhead
          /\ lxoFile' = lxoFile
          /\ currentLayer' = currentLayer
          /\ currentActionItem' = currentActionItem
          /\ pc' = "chunks"
          /\ err' = ""]_vars

(* A filter without TAGS: the TAGS chunk the file starts with was skipped  *)
(* and the LAYR chunk behind it decoded to the one layer of the result.    *)
C1_Witness ==
    /\ pc = "done"
    /\ tagsToRead # {}
    /\ Len(data) >= 16
    /\ SubSeq(data, 13, 16) = ID4("T", "A", "G", "S")
    /\ lxoFile.tagnames = None
    /\ Len(lxoFile.layers) = 1
    /\ Len(lxoFile.layers[1].points) = 1

(* The step is the return of a top-level decoder: of a chunk with a        *)
(* decoder that the filter lets through, or of the body of an ITEM or      *)
(* ACTN chunk.                                                             *)
DecoderReturns ==
    /\ pc' = "chunks"
    /\ \/ (AtChunk /\ ~Filtered(TagAhead) /\ TagAhead \in KnownTags)
       \/ pc \in {"item", "actn"}
DecodedTag ==
    IF pc = "item" THEN ITEMTag
    ELSE IF pc = "actn" THEN ACTNTag
    ELSE TagAhead

(* C2 as stated: whenever a top-level decoder returns, the budget is the   *)
(* snapshot taken after the size field minus the declared size.            *)
C2_ExactSize ==
    [][DecoderReturns => modSize' = sizeSnap' - chunkSize']_vars

(* C2 amended: when a top-level decoder returns, what it took from the     *)
(* budget is set by the fields it read, not by the declared size.  LAYR    *)
(* and ENVL end on the declared size, their trailing blob making up the    *)
(* difference; TAGS, POLS, PNTS, VMAP, VMAD, PTAG, ITEM and ACTN stop at   *)
(* the first record boundary at or past the declared size (PNTS at a       *)
(* multiple of 12 less than 12 past it, TAGS at an even count); DESC,      *)
(* VRSN, APPV, ENCO, CHNM and BBOX take the bytes of their fields          *)
(* whatever the declared size, ENCO always 4 and BBOX always 24.           *)
C2_Consumed ==
    [][DecoderReturns =>
         LET tag == DecodedTag
             consumed == sizeSnap' - modSize'
             read == pos' - pos - 8
         IN  /\ tag \in {ID4("L", "A", "Y", "R"), ID4("E", "N", "V", "L")}
                  => consumed = chunkSize'
             /\ tag \in {ID4("T", "A", "G", "S"), ID4("P", "O", "L", "S"),
                         ID4("P", "N", "T", "S"), ID4("V", "M", "A", "P"),
                         ID4("V", "M", "A", "D"), ID4("P", "T", "A", "G"),
                         ITEMTag, ACTNTag}
                  => consumed >= chunkSize'
             /\ tag = ID4("P", "N", "T", "S")
                  => consumed % 12 = 0 /\ consumed < chunkSize' + 12
                     /\ consumed = read
             /\ tag = ID4("T", "A", "G", "S")
                  => consumed % 2 = 0 /\ consumed = read
             /\ tag = ID4("E", "N", "C", "O") => consumed = 4 /\ read = 4
             /\ tag = ID4("B", "B", "O", "X") => consumed = 24 /\ read = 24
             /\ tag = ID4("D", "E", "S", "C") => consumed = read /\ read >= 4
             /\ tag = ID4("V", "R", "S", "N") => consumed = read /\ read >= 10
             /\ tag = ID4("A", "P", "P", "V") => consumed = read /\ read >= 18
             /\ tag = ID4("C", "H", "N", "M") => consumed = read /\ read >= 4
        ]_vars

(* An ENCO chunk declared with size 0 was decoded: 4 bytes were taken. *)
C2_Witness ==
    /\ pc = "chunks"
    /\ chunkSize = 0
    /\ sizeSnap - modSize = 4
    /\ lxoFile.encoding = Some(1)

(* C3: an input whose stream holds fewer bytes than a declared top-level   *)
(* chunk size requires, the chunk being decoded, filtered out or of an     *)
(* unrecognized tag, makes readFromFile fail: it never returns normally.   *)
C3_TruncatedFails == pc = "done" => ~short

(* The exceptions a subchunk decoder raises on the bytes it is given. *)
DecoderErrors ==
    {"struct.error", "TypeError", "ValueError", "IndexError",
     "AttributeError", "unknown datatype"}

(* C4: with a non-empty filter that holds the enclosing tag, a subchunk    *)
(* of an ITEM or ACTN body is gated on the key enclosing tag + subchunk    *)
(* tag: without the key it is skipped, budget and cursor moving past its   *)
(* u16 size and the item or action layer staying as it is, with the key    *)
(* it is decoded; the walk of the body goes on in both cases.              *)
C4_SubchunkGating ==
    [][(/\ pc \in {"item", "actn"}
        /\ sizeSnap - modSize < chunkSize
        /\ tagsToRead # {}
        /\ Len(data) >= pos + 6
        /\ data[pos + 1] < 128)
       => LET enclosing == IF pc = "item" THEN ITEMTag ELSE ACTNTag
              key == enclosing \o SubSeq(data, pos + 1, pos + 4)
              size == BE2(SubSeq(data, pos + 5, pos + 6))
          IN  IF key \notin tagsToRead
              THEN /\ modSize' = modSize - 6 - size
                   /\ pos' = pos + 6 + size
                   /\ lxoFile' = lxoFile
                   /\ currentActionItem' = currentActionItem
                   /\ pc' = pc
              ELSE \/ pc' = pc
                   \/ pc' = "error" /\ err' \in DecoderErrors]_vars

(* What a primitive called on its own left behind. *)
Outcome(r) == <<r.pos, r.mod, r.err, r.v>>

(* C5: readVX on any 4 available bytes b0 b1 b2 b3 returns b0*256+b1,      *)
(* consuming 2 bytes and 2 of the budget, when that value is below 0xFF00, *)
(* and otherwise returns b1*65536 + b2*256 + b3, consuming 4 bytes and 4   *)
(* of the budget.                                                          *)
C5_ReadVX ==
    [][(pc = "call" /\ pc' = "readVX" /\ Len(data) >= 4) =>
         LET u == data[1] * 256 + data[2] IN
         IF u < 65280
         THEN /\ err' = ""
              /\ ret' = u
              /\ pos' = pos + 2
              /\ modSize' = modSize - 2
         ELSE /\ err' = ""
              /\ ret' = data[2] * 65536 + data[3] * 256 + data[4]
              /\ pos' = pos + 4
              /\ modSize' = modSize - 4]_vars

(* s with all trailing zero bytes removed. *)
StripZeros(s) ==
    LET nz == {i \in 1..Len(s) : s[i] # 0} IN
    IF nz = {} THEN <<>>
    ELSE SubSeq(s, 1, CHOOSE i \in nz : \A j \in nz : j <= i)

(* k is a position where readS0 may stop: an even count, a zero byte. *)
S0Stop(k) == k % 2 = 0 /\ data[k] = 0

(* readS0 returned after reading n bytes: n is the first stop position,    *)
(* which makes it even and at least 2, and the budget went down by n.      *)
S0Consumed(n) ==
    /\ n \in 1..Len(data)
    /\ S0Stop(n)
    /\ \A j \in 1..(n - 1) : ~S0Stop(j)
    /\ n % 2 = 0
    /\ n >= 2
    /\ modSize' = modSize - n

(* C6 as stated: readS0 stops at the first even position holding a zero    *)
(* byte, consumes that even number of bytes and as much budget, and        *)
(* returns the bytes read with all trailing zero bytes removed.            *)
C6_ReadS0Bytes ==
    [][(pc = "call" /\ pc' = "readS0" /\ err' = "") =>
         /\ S0Consumed(pos' - pos)
         /\ ret' = StripZeros(SubSeq(data, 1, pos' - pos))]_vars

(* C6 amended: readS0 returns exactly when the stream has an even position *)
(* holding a zero byte; it stops at the first one, consumes that even      *)
(* number of bytes and as much budget, and returns the UTF-8 decoding,     *)
(* undecodable bytes dropped, of the bytes read with all trailing zero     *)
(* bytes removed: those bytes themselves when they are all ASCII.          *)
C6_ReadS0Decoded ==
    [][(pc = "call" /\ pc' = "readS0") =>
         /\ (err' = "") <=> (\E k \in 1..Len(data) : S0Stop(k))
         /\ (err' = "") =>
               LET n == pos' - pos
                   stripped == StripZeros(SubSeq(data, 1, n))
               IN  /\ S0Consumed(n)
                   /\ ret' = decodeUtf8Ignore(stripped)
                   /\ (\A i \in 1..Len(stripped) : stripped[i] < 128)
                         => ret' = stripped
                   /\ Len(ret') <= Len(stripped)]_vars

(* readS0 has returned "AB" from 41 42 00 00, 4 bytes consumed. *)
C6_Witness ==
    /\ pc = "readS0"
    /\ err = ""
    /\ data = <<65, 66, 0, 0>>
    /\ ret = <<65, 66>>
    /\ pos = 4
    /\ modSize = 0

(* What readValue does once a datatype is taken to be of a kind. *)
ValueOfKind(kind, r) ==
    IF kind = "int" THEN readInt(r)
    ELSE IF kind = "float" THEN readFloat(r)
    ELSE IF kind = "string" THEN readS0(r)
    ELSE [r EXCEPT !.err = "unknown datatype"]

(* C7 as stated: readValue keeps the low 5 bits of the datatype and        *)
(* dispatches on them: 1 or 17 an integer, 2 or 18 a float, 3 or 19 a      *)
(* string, anything else fails without consuming bytes; so datatypes that  *)
(* agree in their low 5 bits decode identically.                           *)
C7_Low5Bits ==
    [][(pc = "call" /\ pc' = "readValue") =>
         LET m == arg' % 32
             kind == IF m \in {1, 17} THEN "int"
                     ELSE IF m \in {2, 18} THEN "float"
                     ELSE IF m \in {3, 19} THEN "string"
                     ELSE "unknown"
         IN  <<pos', modSize', err', ret'>>
               = Outcome(ValueOfKind(kind, R(pos, modSize)))]_vars

(* C7 amended: readValue clears only bit 5 (0x20) of the datatype: 1, 17,  *)
(* 33 and 49 read a signed 4-byte integer, 2, 18, 34 and 50 a 4-byte       *)
(* float, 3, 19, 35 and 51 an S0 string, and every other datatype (65      *)
(* among them) fails with "unknown datatype" without consuming bytes or    *)
(* budget; datatypes that differ only in bit 5 decode identically.         *)
C7_Bit5Cleared ==
    [][(pc = "call" /\ pc' = "readValue") =>
         LET kind == IF arg' \in {1, 17, 33, 49} THEN "int"
                     ELSE IF arg' \in {2, 18, 34, 50} THEN "float"
                     ELSE IF arg' \in {3, 19, 35, 51} THEN "string"
                     ELSE "unknown"
         IN  /\ <<pos', modSize', err', ret'>>
                  = Outcome(ValueOfKind(kind, R(pos, modSize)))
             /\ kind = "unknown" =>
                  err' = "unknown datatype" /\ pos' = pos
                  /\ modSize' = modSize]_vars

(* readValue(49) has read FF FF FF FE as the integer -2. *)
C7_Witness ==
    /\ pc = "readValue"
    /\ arg = 49
    /\ err = ""
    /\ data = <<255, 255, 255, 254>>
    /\ ret = -2
    /\ pos = 4

(* The polygon indices that carry tag name nm, in ptag order. *)
RECURSIVE PolysOf(_, _, _)
PolysOf(pt, tn, nm) ==
    IF Len(pt) = 0 THEN <<>>
    ELSE (IF tn[pt[1][2] + 1] = nm THEN <<pt[1][1]>> ELSE <<>>)
         \o PolysOf(Tail(pt), tn, nm)

(* The materials view of a layer as derived from (ptags MATR, tagnames). *)
DerivedMaterials(layer, tagnames) ==
    IF MATR \notin DOMAIN layer.ptags \/ Len(layer.ptags[MATR]) = 0
    THEN EmptyDict
    ELSE LET pt == layer.ptags[MATR]
             tn == tagnames[1]
         IN  [nm \in {tn[pt[i][2] + 1] : i \in 1..Len(pt)}
                |-> PolysOf(pt, tn, nm)]

(* C8: materials is empty until generateMaterials is called, and after any *)
(* number n >= 1 of calls it maps each tag name to the polygon indices     *)
(* carrying it, in ptag order, each exactly once.                          *)
C8_MaterialsIdempotent ==
    (pc = "done" /\ err = "") =>
        \A l \in 1..Len(lxoFile.layers) :
            lxoFile.layers[l].materials =
                IF calls = 0 THEN EmptyDict
                ELSE DerivedMaterials(lxoFile.layers[l], lxoFile.tagnames)

(* C9: an ENCO chunk whose encoding index is not below the 8 entries of   *)
(* the encoding list aborts the decode, so the file's encoding is only     *)
(* ever an index within 0..7.                                              *)
C9_EncodingInRange ==
    lxoFile.encoding = None \/ lxoFile.encoding[1] \in 0..(NumEncodings - 1)

(* The length of the file's tag-name table, none being no entry. *)
NumTagnames ==
    IF lxoFile.tagnames = None THEN 0 ELSE Len(lxoFile.tagnames[1])

(* C10: in the aggregate of a successful decode every point index of a     *)
(* polygon is below the number of the layer's points, every polygon index  *)
(* of a ptag pair below the number of its polygons, and every tag index    *)
(* of a ptag pair below the length of the tag-name table.                  *)
C10_IndicesInRange ==
    pc = "done" =>
        \A l \in 1..Len(lxoFile.layers) :
            LET layer == lxoFile.layers[l] IN
            /\ \A p \in 1..Len(layer.polygons) :
                  \A i \in 1..Len(layer.polygons[p]) :
                      layer.polygons[p][i] < Len(layer.points)
            /\ \A t \in DOMAIN layer.ptags :
                  \A i \in 1..Len(layer.ptags[t]) :
                      /\ layer.ptags[t][i][1] < Len(layer.polygons)
                      /\ layer.ptags[t][i][2] < NumTagnames

(* The k-th 3-float vector of the payload of the chunk ahead. *)
VectorAhead(k) ==
    LET base == pos + 8 + 12 * (k - 1)
    IN  [j \in 1..3 |->
           Float(SubSeq(data, base + 4 * (j - 1) + 1, base + 4 * j))]

(* The vectors a PNTS chunk of the declared size holds, in file order. *)
VectorsAhead == [k \in 1..((SizeAhead + 11) \div 12) |-> VectorAhead(k)]

(* C11: a PNTS chunk that is decoded appends its 3-float vectors, in file  *)
(* order, to the points of the current layer, so that a second PNTS chunk  *)
(* for the layer removes nothing, and a PNTS, POLS or PTAG chunk changes   *)
(* no layer but the current one, which is the one created last.            *)
C11_PntsAppends ==
    [][(/\ AtChunk
        /\ ~Filtered(TagAhead)
        /\ currentLayer # 0
        /\ pc' = "chunks")
       => LET layers == lxoFile.layers IN
          /\ TagAhead = ID4("P", "N", "T", "S")
               => lxoFile'.layers[currentLayer].points
                    = layers[currentLayer].points \o VectorsAhead
          /\ TagAhead \in {ID4("P", "N", "T", "S"), ID4("P", "O", "L", "S"),
                           ID4("P", "T", "A", "G")}
               => /\ currentLayer = Len(layers)
                  /\ Len(lxoFile'.layers) = Len(layers)
                  /\ \A l \in 1..Len(layers) :
                        l # currentLayer => lxoFile'.layers[l] = layers[l]
         ]_vars

(* The chunks whose decoders work on the current layer. *)
LayerChunks ==
    {ID4("P", "O", "L", "S"), ID4("P", "N", "T", "S"), ID4("V", "M", "A", "P"),
     ID4("V", "M", "A", "D"), ID4("P", "T", "A", "G")}

(* C12: a POLS, PNTS, VMAP, VMAD or PTAG chunk that goes to its decoder    *)
(* while there is no current layer, no LAYR chunk having been decoded,     *)
(* makes the decode fail, whatever its map type, polygon type or payload:  *)
(* the walk ends in an error and no aggregate is returned.                 *)
C12_NoLayerFails ==
    [][(/\ AtChunk
        /\ ~Filtered(TagAhead)
        /\ TagAhead \in LayerChunks
        /\ currentLayer = 0)
       => (pc' = "error" /\ err' # "")]_vars

(* The names of the file's channel-name table, none being no name. *)
ChannelNameSet ==
    IF lxoFile.channelNames = None THEN {}
    ELSE {lxoFile.channelNames[1][i] : i \in 1..Len(lxoFile.channelNames[1])}

(* C13: a CHNL subchunk of an ITEM body adds its (name, datatype, value)   *)
(* record to the item's CHNL list only when the name is not in the file's  *)
(* channel-name table, so that after a decode no record of any item's      *)
(* CHNL list has a name that occurs in channelNames.                       *)
C13_ChnlUnresolvedOnly ==
    pc = "done" =>
        \A i \in 1..Len(lxoFile.items) :
            \A k \in 1..Len(lxoFile.items[i].CHNL) :
                lxoFile.items[i].CHNL[k][1] \notin ChannelNameSet

(* A TAGS chunk has set tagnames; a CHNM chunk has set channelNames. *)
TagnamesSet == lxoFile.tagnames # None
ChannelNamesSet == lxoFile.channelNames # None

(* C14: the two lookup tables are written once: after a TAGS chunk has     *)
(* set tagnames, and after a CHNM chunk has set channelNames, no later     *)
(* step of the same decode, a second TAGS or CHNM chunk included, changes  *)
(* that table.                                                             *)
C14_TablesWriteOnce ==
    [][/\ TagnamesSet => lxoFile'.tagnames = lxoFile.tagnames
       /\ ChannelNamesSet => lxoFile'.channelNames = lxoFile.channelNames
      ]_vars

(* The trailing blob read of the ENVL chunk ahead: the reader after the   *)
(* chunk's fixed fields, and after the blob read that follows them.        *)
EnvlBlobAhead ==
    LET index == readVX(Hdr.r)
        type == readU4(index)
    IN  [before |-> type,
         after |-> readblob(type, blobsize(type, Hdr.r.mod, Hdr.size))]

(* C15: cursor and budget stay in lockstep and the budget only shrinks:    *)
(* whenever the top-level walker is about to read a chunk header, the      *)
(* cursor's offset plus the budget is 8 plus the declared FORM size, and   *)
(* no step of the decode, the trailing blob reads of LAYR and ENVL under   *)
(* a declared size smaller than their fixed fields included, increases     *)
(* the budget or moves the cursor backward.                                *)
C15_Lockstep ==
    [][/\ pc # "start" => (modSize' <= modSize /\ pos' >= pos)
       /\ (pc' = "chunks" /\ modSize' > 0)
            => pos' + modSize' = 8 + lxoFile'.size
       /\ (/\ AtChunk
           /\ ~Filtered(TagAhead)
           /\ TagAhead = ID4("E", "N", "V", "L")
           /\ EnvlBlobAhead.before.err = "")
            => /\ EnvlBlobAhead.after.mod <= EnvlBlobAhead.before.mod
               /\ EnvlBlobAhead.after.pos >= EnvlBlobAhead.before.pos
      ]_vars

\* END CLAIMS
====
